---- MODULE Spec2Model ----
(***************************************************************************)
(* A model of the connection pool and query dispatcher of exapp-sql:       *)
(* SQLDriver and SQLClient (xpart-sql.js) with the PostgreSQL client       *)
(* (xpart-sql-pgsql.js).                                                   *)
(*                                                                         *)
(* One step of the model is one turn of the JavaScript event loop: a call  *)
(* of the public API by the application, one setImmediate callback, or one *)
(* completion delivered by the Backend (connect or query).  The methods of *)
(* the source are operators that take the state of the program ("world")   *)
(* and return the state after the call, composed as the source calls them. *)
(***************************************************************************)
EXTENDS Integers, Sequences, FiniteSets

\* ------------------------------------------------------------------ bounds

\* API calls made by the application in one run (each call has its own callback).
MaxRequests == 4
\* Backend connections that are ever established in one run.
MaxClients == 2
\* config.maxConnections ranges over 1..MaxConnections.
MaxConnections == 2
\* config.maximumFailures (the source's default is 20).
MaximumFailures == 2
\* Backend queries that are answered with an error in one run.
MaxQueryErrors == 1
\* Queries the application issues back to back in one burst.
BurstQueries == 5
\* Entries of config.pgTypeParsers.
MaxTypeParsers == 2
\* Queries the application issues right behind a begin().
MaxBacklog == 2

\* ------------------------------------------------------------------ values

\* JavaScript null, as a callback or as a link to a client.
NULL == 0
\* _txId of a client that is not in a transaction.
NoTx == -1

\* A value passed to a callback: null, an SQLError, a result, or a client.
Val(t, c) == [t |-> t, c |-> c]
Null == Val("null", 0)
DriverStateError == Val("DriverState", 0)
TransactionStateError == Val("TransactionState", 0)
BackendError == Val("Backend", 0)
Rows == Val("rows", 0)
ClientRef(c) == Val("client", c)

\* SQL text is a sequence of tokens; "+" of the source is \o.  The empty
\* sequence is the empty string.  A queue item's qs may be null.
NullQs == <<"null">>
BEGIN == <<"BEGIN;">>
COMMIT == <<"COMMIT;">>
\* "\nCOMMIT;", appended to the SQL that commit(q, cb) sends.
NewlineCommit == <<"\nCOMMIT;">>
ROLLBACK == <<"ROLLBACK;">>
QueryTexts == <<"Q1", "Q2", "Q3", "Q4", "Q5", "Q6", "Q7", "Q8">>
\* The SQL text the application passes in its r-th call.
QueryText(r) == <<QueryTexts[r]>>

ClientIds == 1..MaxClients

\* ------------------------------------------------------------ type parsers

\* PostgreSQL TypeName to OID mapping (of its 160 names, these).
OID == [BOOL |-> 16, INT8 |-> 20, INT4 |-> 23, TEXT |-> 25, JSONB |-> 3802]

\* The type of a type parser: a string (a name) or a number (an OID).
TypeName(s) == [t |-> "string", s |-> s, n |-> 0]
TypeOid(n) == [t |-> "number", s |-> "", n |-> n]

\* The types the application writes in config.pgTypeParsers: names of the
\* table, names that are not in it, and OIDs, one of them not in the table.
InputTypes ==
  {TypeName("INT4"), TypeName("JSONB"), TypeName("jsonb"), TypeName("NOPE"),
   TypeOid(OID.INT4), TypeOid(OID.JSONB), TypeOid(OID.JSONB + 1)}
InputFormats == {"text", "binary"}
InputParsers == {"parseA", "parseB"}
TypeParser(type, format, parser) ==
  [type |-> type, format |-> format, parser |-> parser]
InputEntries ==
  {TypeParser(type, format, parser) :
     type \in InputTypes, format \in InputFormats, parser \in InputParsers}

\* config.pgTypeParsers: not given, or an array of type parsers.
NoTypeParsers == [given |-> FALSE, pgTypeParsers |-> <<>>]
GivenTypeParsers(input) == [given |-> TRUE, pgTypeParsers |-> input]

\* internal.pgTypeParsers: not reached yet by the constructor, left
\* undefined, set to the normalized array, or the constructor threw.
Pending == [state |-> "pending", output |-> <<>>]
Undefined == [state |-> "undefined", output |-> <<>>]
Normalized(output) == [state |-> "set", output |-> output]
ConfigurationError == [state |-> "thrown", output |-> <<>>]

\* hasOwn.call(OID, type)
hasOwn(type) == type \in DOMAIN OID

\* The for loop of normalizeTypeParsers with a slip: a name that is not in
\* the table is passed on as it is.
RECURSIVE NormalizeLoop_keepsUnknown(_, _, _)
NormalizeLoop_keepsUnknown(input, i, output) ==
  IF i > Len(input) THEN Normalized(output)
  ELSE LET tp == input[i] IN
       IF tp.type.t = "string" /\ hasOwn(tp.type.s)
       THEN NormalizeLoop_keepsUnknown(input, i + 1,
              Append(output, TypeParser(TypeOid(OID[tp.type.s]), tp.format, tp.parser)))
       ELSE NormalizeLoop_keepsUnknown(input, i + 1,
              Append(output, TypeParser(tp.type, tp.format, tp.parser)))

\* The for loop of normalizeTypeParsers(input), at index i (from 1) with the
\* output built so far.
RECURSIVE NormalizeLoop(_, _, _)
NormalizeLoop(input, i, output) ==
  IF i > Len(input) THEN Normalized(output)
  ELSE LET tp == input[i] IN
       IF tp.type.t = "string"
       THEN IF ~hasOwn(tp.type.s)
            THEN ConfigurationError
            ELSE NormalizeLoop(input, i + 1,
                   Append(output, TypeParser(TypeOid(OID[tp.type.s]), tp.format, tp.parser)))
       ELSE NormalizeLoop(input, i + 1,
              Append(output, TypeParser(tp.type, tp.format, tp.parser)))

\* normalizeTypeParsers(input)
normalizeTypeParsers(input) == NormalizeLoop(input, 1, <<>>)

\* ------------------------------------------------------------------- state

VARIABLES
  internal,    \* SQLDriver._internal
  clients,     \* the SQLClient objects, by identity
  nclients,    \* SQLClient objects constructed so far
  connecting,  \* impl.connect() calls the Backend has not answered
  inflight,    \* per client: impl.query() calls the Backend has not answered
  ended,       \* per client: impl.end() calls
  immediates,  \* the setImmediate queue
  sent,        \* every impl.query() call, in order: [client, qs, cb]
  delivered,   \* every invocation of a user callback, in order: [cb, err, res]
  dispatched,  \* every item taken from the work queue, in order: [cb, client]
  requests,    \* every API call of the application, in order; its index is its callback
  handle,      \* per client: what the owner of its transaction may do next
  stale,       \* per client: a transaction on it has ended and its caller keeps the reference
  queryErrors, \* Backend queries answered with an error so far
  uncaught,    \* an exception left a turn of the event loop
  hung,        \* a turn of the event loop never ends
  config,      \* config.pgTypeParsers, as given to new PGSQLDriver(app, config)
  pgTypeParsers \* internal.pgTypeParsers, and how far the constructor has come

vars == <<internal, clients, nclients, connecting, inflight, ended, immediates,
          sent, delivered, dispatched, requests, handle, stale, queryErrors, uncaught, hung,
          config, pgTypeParsers>>

\* The state the methods read and write.  exc: an exception is unwinding the
\* current turn.
World ==
  [internal |-> internal, clients |-> clients, nclients |-> nclients,
   connecting |-> connecting, inflight |-> inflight, ended |-> ended,
   immediates |-> immediates, sent |-> sent, delivered |-> delivered,
   dispatched |-> dispatched,
   exc |-> FALSE, hung |-> hung]

\* new SQLClient(driver, impl)
NewClient ==
  [_next |-> NULL, _txId |-> NoTx, _txState |-> "", _failed |-> FALSE,
   _pooled |-> FALSE, _returnToPool |-> TRUE, _qs |-> <<>>, _cb |-> NULL]

\* new SQLDriver(app, config)
NewInternal(maxConnections) ==
  [status |-> "pending", clientsCount |-> 0, clientsActive |-> 0,
   clientsMaximum |-> maxConnections,
   failuresCount |-> 0, failuresMaximum |-> MaximumFailures,
   clientPool |-> NULL, queue |-> <<>>, txIdGenerator |-> 0,
   onDelayedStop |-> NULL, _onDelayedStop |-> NULL]

Init ==
  /\ \E m \in 1..MaxConnections : internal = NewInternal(m)
  /\ clients = [c \in ClientIds |-> NewClient]
  /\ nclients = 0
  /\ connecting = 0
  /\ inflight = [c \in ClientIds |-> 0]
  /\ ended = [c \in ClientIds |-> 0]
  /\ immediates = <<>>
  /\ sent = <<>>
  /\ delivered = <<>>
  /\ dispatched = <<>>
  /\ requests = <<>>
  /\ handle = [c \in ClientIds |-> "none"]
  /\ stale = [c \in ClientIds |-> FALSE]
  /\ queryErrors = 0
  /\ uncaught = FALSE
  /\ hung = FALSE
  /\ config = NoTypeParsers
  /\ pgTypeParsers = Undefined

\* ----------------------------------------------------------------- runtime

\* nopCompiler.compile(q): String(q)
compile(q) == q

\* cb(err, res), called in the current turn.
Call(w, cb, err, res) ==
  IF cb = NULL
  THEN [w EXCEPT !.exc = TRUE]
  ELSE [w EXCEPT !.delivered = Append(@, [cb |-> cb, err |-> err, res |-> res])]

\* setImmediate(cb, err, res) with a slip: cb is called at once.
setImmediate_callsNow(w, cb, err, res) == Call(w, cb, err, res)

\* setImmediate(cb, err, res); a callback that is no function is a TypeError.
setImmediate(w, cb, err, res) ==
  IF cb = NULL
  THEN [w EXCEPT !.exc = TRUE]
  ELSE [w EXCEPT !.immediates = Append(@, [cb |-> cb, err |-> err, res |-> res])]

\* ------------------------------------------------- SQLDriver: pool and queue

\* PGSQLDriver._destroyClient(client): client._impl.end()
_destroyClient(w, client) == [w EXCEPT !.ended[client] = @ + 1]

\* The while loop of _destroyPool, n clients destroyed so far.  A list of
\* distinct clients has at most MaxClients links: a longer walk is in a cycle
\* of _next links and the loop never ends.
RECURSIVE DestroyPoolLoop(_, _, _)
DestroyPoolLoop(w, client, n) ==
  IF client = NULL
  THEN [w EXCEPT !.internal.clientsCount = @ - n,
                 !.internal.clientsActive = @ - n,
                 !.internal.clientPool = NULL]
  ELSE IF n > MaxClients
  THEN [w EXCEPT !.hung = TRUE]
  ELSE DestroyPoolLoop(_destroyClient(w, client), w.clients[client]._next, n + 1)

\* SQLDriver._destroyPool()
_destroyPool(w) == DestroyPoolLoop(w, w.internal.clientPool, 0)

\* SQLDriver._start(cb)
_start(w, cb) ==
  setImmediate([w EXCEPT !.internal.status = "running"], cb, Null, Null)

\* _stop(cb) with a slip: the driver is left ready to be started again.
_stop_toPending(w, cb) ==
  IF w.hung THEN w
  ELSE setImmediate([w EXCEPT !.internal.status = "pending",
                              !.internal.onDelayedStop = NULL],
                    cb, Null, Null)

\* SQLDriver._stop(cb)
_stop(w, cb) ==
  IF w.hung THEN w
  ELSE setImmediate([w EXCEPT !.internal.status = "stopped",
                              !.internal.onDelayedStop = NULL],
                    cb, Null, Null)

\* SQLDriver._idle()
_idle(w) ==
  IF w.internal.clientsActive = 0 /\ w.internal.status = "stopping"
  THEN _stop(_destroyPool(w), w.internal.onDelayedStop)
  ELSE w

\* _releaseClient(client) with a slip: the transaction fields are not reset.
_releaseClient_keepsTx(w, client) ==
  LET keep == w.internal.status = "running" /\ ~w.clients[client]._failed IN
  IF ~keep
  THEN _idle(_destroyClient(
         [w EXCEPT !.internal.clientsCount = @ - 1,
                   !.internal.clientsActive = @ - 1], client))
  ELSE _idle(
         [w EXCEPT !.clients[client]._next = w.internal.clientPool,
                   !.clients[client]._pooled = TRUE,
                   !.clients[client]._returnToPool = TRUE,
                   !.internal.clientsActive = @ - 1,
                   !.internal.clientPool = client])

\* SQLDriver._releaseClient(client)
_releaseClient(w, client) ==
  LET keep == w.internal.status = "running" /\ ~w.clients[client]._failed IN
  IF ~keep
  THEN _idle(_destroyClient(
         [w EXCEPT !.internal.clientsCount = @ - 1,
                   !.internal.clientsActive = @ - 1], client))
  ELSE _idle(
         [w EXCEPT !.clients[client]._next = w.internal.clientPool,
                   !.clients[client]._txId = NoTx,
                   !.clients[client]._txState = "",
                   !.clients[client]._pooled = TRUE,
                   !.clients[client]._returnToPool = TRUE,
                   !.internal.clientsActive = @ - 1,
                   !.internal.clientPool = client])

\* _getClientFromPool() with a slip: the pool's head is not moved on, so the
\* client handed out stays the head of the pool.
_getClientFromPool_keepsHead(w) ==
  LET client == w.internal.clientPool IN
  [w EXCEPT !.internal.clientsActive = @ + 1,
            !.clients[client]._pooled = FALSE]

\* SQLDriver._getClientFromPool(): the state after the call; the client it
\* returns is the pool's head before the call.
_getClientFromPool(w) ==
  LET client == w.internal.clientPool IN
  [w EXCEPT !.internal.clientPool = w.clients[client]._next,
            !.internal.clientsActive = @ + 1,
            !.clients[client]._pooled = FALSE,
            !.clients[client]._next = NULL]

\* SQLDriver._newTxId(): the state after the call; the id it returns is the
\* new value of txIdGenerator.
_newTxId(w) == [w EXCEPT !.internal.txIdGenerator = @ + 1]

\* ---------------------------------------------------------------- SQLClient

\* PGSQLClient._query(qs, cb)
_query(w, client, qs, cb) ==
  [w EXCEPT !.clients[client]._qs = qs,
            !.clients[client]._cb = cb,
            !.inflight[client] = @ + 1,
            !.sent = Append(@, [client |-> client, qs |-> qs, cb |-> cb])]

\* query(q, cb) with a slip: the transaction state is not moved to PENDING.
ClientQuery_noPending(w, client, q, cb) ==
  LET qs == compile(q)
      c == w.clients[client] IN
  IF c._txId # NoTx /\ c._txState = ""
  THEN _query(w, client, BEGIN \o qs, cb)
  ELSE _query(w, client, qs, cb)

\* SQLClient.query(q, cb)
ClientQuery(w, client, q, cb) ==
  LET qs == compile(q)
      c == w.clients[client] IN
  IF c._txId # NoTx /\ c._txState = ""
  THEN _query([w EXCEPT !.clients[client]._txState = "PENDING"],
              client, BEGIN \o qs, cb)
  ELSE _query(w, client, qs, cb)

RECURSIVE _onClientIdle(_, _), _handleQueue(_, _), ClientBegin(_, _, _)

\* SQLClient.begin(cb)
ClientBegin(w, client, cb) ==
  IF w.clients[client]._txId # NoTx
  THEN _onClientIdle(setImmediate(w, cb, Null, TransactionStateError), client)
  ELSE LET w1 == _newTxId(w) IN
       setImmediate(
         [w1 EXCEPT !.clients[client]._txId = w1.internal.txIdGenerator,
                    !.clients[client]._txState = "",
                    !.clients[client]._returnToPool = FALSE],
         cb, Null, ClientRef(client))

\* _handleQueue(client) with a slip: it takes the last item of the queue.
_handleQueue_takesLast(w, client) ==
  LET n == Len(w.internal.queue)
      item == w.internal.queue[n]
      w1 == [w EXCEPT !.internal.queue = SubSeq(@, 1, n - 1),
                      !.dispatched = Append(@, [cb |-> item.cb, client |-> client])] IN
  IF item.qs # NullQs
  THEN ClientQuery(w1, client, item.qs, item.cb)
  ELSE ClientBegin(w1, client, item.cb)

\* SQLDriver._handleQueue(client)
_handleQueue(w, client) ==
  LET item == Head(w.internal.queue)
      w1 == [w EXCEPT !.internal.queue = Tail(@),
                      !.dispatched = Append(@, [cb |-> item.cb, client |-> client])] IN
  IF item.qs # NullQs
  THEN ClientQuery(w1, client, item.qs, item.cb)
  ELSE ClientBegin(w1, client, item.cb)

\* _onClientIdle(client) with a slip: the work queue is not looked at.
_onClientIdle_alwaysReleases(w, client) == _releaseClient(w, client)

\* SQLDriver._onClientIdle(client)
_onClientIdle(w, client) ==
  IF w.internal.queue # <<>>
  THEN _handleQueue(w, client)
  ELSE _releaseClient(w, client)

\* commit([q,] cb) with a slip: no shortcut for the empty transaction.
ClientCommit_noShortcut(w, client, q, cb) ==
  LET qs == compile(q)
      c == w.clients[client] IN
  IF c._txId = NoTx
  THEN _onClientIdle(setImmediate(w, cb, Null, TransactionStateError), client)
  ELSE LET qs1 == IF c._txState = "" THEN BEGIN \o qs ELSE qs
           qs2 == IF qs1 = <<>> THEN COMMIT ELSE qs1 \o NewlineCommit IN
       ClientQuery([w EXCEPT !.clients[client]._txState = "COMMIT",
                             !.clients[client]._returnToPool = TRUE],
                   client, qs2, cb)

\* commit([q,] cb) with a slip: the first statement of the transaction is
\* sent without "BEGIN;\n".
ClientCommit_noBegin(w, client, q, cb) ==
  LET qs == compile(q)
      c == w.clients[client] IN
  IF c._txId = NoTx
  THEN _onClientIdle(setImmediate(w, cb, Null, TransactionStateError), client)
  ELSE IF c._txState = "" /\ qs = <<>>
  THEN _onClientIdle(setImmediate(w, cb, Null, Null), client)
  ELSE LET qs2 == IF qs = <<>> THEN COMMIT ELSE qs \o NewlineCommit IN
       _query([w EXCEPT !.clients[client]._txState = "COMMIT",
                        !.clients[client]._returnToPool = TRUE],
              client, qs2, cb)

\* commit([q,] cb) with a slip: "\nCOMMIT;" is appended also when there is
\* no SQL to append it to.
ClientCommit_alwaysAppends(w, client, q, cb) ==
  LET qs == compile(q)
      c == w.clients[client] IN
  IF c._txId = NoTx
  THEN _onClientIdle(setImmediate(w, cb, Null, TransactionStateError), client)
  ELSE IF c._txState = "" /\ qs = <<>>
  THEN _onClientIdle(setImmediate(w, cb, Null, Null), client)
  ELSE LET qs1 == IF c._txState = "" THEN BEGIN \o qs ELSE qs IN
       ClientQuery([w EXCEPT !.clients[client]._txState = "COMMIT",
                             !.clients[client]._returnToPool = TRUE],
                   client, qs1 \o NewlineCommit, cb)

\* SQLClient.commit([q,] cb); q is the empty string when it is not given.
ClientCommit(w, client, q, cb) ==
  LET qs == compile(q)
      c == w.clients[client] IN
  IF c._txId = NoTx
  THEN _onClientIdle(setImmediate(w, cb, Null, TransactionStateError), client)
  ELSE IF c._txState = "" /\ qs = <<>>
  THEN _onClientIdle(setImmediate(w, cb, Null, Null), client)
  ELSE LET qs1 == IF c._txState = "" THEN BEGIN \o qs ELSE qs
           qs2 == IF qs1 = <<>> THEN COMMIT ELSE qs1 \o NewlineCommit IN
       ClientQuery([w EXCEPT !.clients[client]._txState = "COMMIT",
                             !.clients[client]._returnToPool = TRUE],
                   client, qs2, cb)

\* SQLClient.rollback(cb)
ClientRollback(w, client, cb) ==
  LET c == w.clients[client] IN
  IF c._txId = NoTx
  THEN _onClientIdle(setImmediate(w, cb, Null, TransactionStateError), client)
  ELSE IF c._txState = ""
  THEN _onClientIdle(setImmediate(w, cb, Null, Null), client)
  ELSE ClientQuery([w EXCEPT !.clients[client]._txState = "ROLLBACK",
                             !.clients[client]._returnToPool = TRUE],
                   client, ROLLBACK, cb)

\* PGSQLClient._onQuery(err, result); err is Null or the Backend's error.
_onQuery(w, client, err) ==
  LET cb == w.clients[client]._cb
      w1 == [w EXCEPT !.clients[client]._qs = <<>>,
                      !.clients[client]._cb = NULL]
      w2 == IF w1.clients[client]._returnToPool
            THEN _onClientIdle(w1, client)
            ELSE w1 IN
  IF w2.exc \/ w2.hung THEN w2
  ELSE IF err # Null THEN Call(w2, cb, err, Null)
  ELSE Call(w2, cb, Null, Rows)

\* -------------------------------------------------- SQLDriver: scheduling

\* PGSQLDriver._createClient(cb): impl.connect() is called; the Backend
\* answers in a later turn.
_createClient(w) == [w EXCEPT !.connecting = @ + 1]

\* _scheduleWork() with a slip: clientsMaximum is not looked at.
_scheduleWork_noLimit(w) ==
  IF w.internal.queue = <<>> THEN w
  ELSE IF w.internal.clientPool # NULL
  THEN _handleQueue(_getClientFromPool(w), w.internal.clientPool)
  ELSE _createClient([w EXCEPT !.internal.clientsCount = @ + 1])

\* SQLDriver._scheduleWork()
_scheduleWork(w) ==
  IF w.internal.queue = <<>> THEN w
  ELSE IF w.internal.clientPool # NULL
  THEN _handleQueue(_getClientFromPool(w), w.internal.clientPool)
  ELSE IF w.internal.clientsCount < w.internal.clientsMaximum
  THEN _createClient([w EXCEPT !.internal.clientsCount = @ + 1])
  ELSE w

\* _addToQueue(qs, cb) with a slip: the item is linked in front of the queue.
_addToQueue_inFront(w, qs, cb) ==
  _scheduleWork([w EXCEPT !.internal.queue = <<[qs |-> qs, cb |-> cb]>> \o @])

\* SQLDriver._addToQueue(qs, cb)
_addToQueue(w, qs, cb) ==
  _scheduleWork([w EXCEPT !.internal.queue = Append(@, [qs |-> qs, cb |-> cb])])

\* SQLDriver._onClientCreated(null, client), client just constructed by
\* new PGSQLClient(self, impl)
\* _onClientCreated(null, client) with a slip: the new client goes to the
\* pool whatever the queue holds.
_onClientCreatedOk_toPool(w) ==
  LET client == w.nclients + 1 IN
  _releaseClient([w EXCEPT !.nclients = client,
                           !.clients[client] = NewClient,
                           !.internal.clientsActive = @ + 1],
                 client)

_onClientCreatedOk(w) ==
  LET client == w.nclients + 1 IN
  _onClientIdle([w EXCEPT !.nclients = client,
                          !.clients[client] = NewClient,
                          !.internal.clientsActive = @ + 1],
                client)

\* _onClientCreated(err, null) with a slip: no further attempt is scheduled.
_onClientCreatedErr_noRetry(w) ==
  [w EXCEPT !.internal.clientsCount = @ - 1,
            !.internal.failuresCount = @ + 1]

\* SQLDriver._onClientCreated(err, null)
\* _onClientCreated(err) with a slip: it reschedules whatever clientsCount is.
_onClientCreatedErr_alwaysRetry(w) ==
  _scheduleWork([w EXCEPT !.internal.clientsCount = @ - 1,
                          !.internal.failuresCount = @ + 1])

_onClientCreatedErr(w) ==
  LET w1 == [w EXCEPT !.internal.clientsCount = @ - 1,
                      !.internal.failuresCount = @ + 1] IN
  IF w1.internal.clientsCount = 0
       /\ ~(w1.internal.failuresCount >= w1.internal.failuresMaximum)
  THEN _scheduleWork(w1)
  ELSE w1

\* -------------------------------------------------- SQLDriver: public API

\* SQLDriver.start(cb)
start(w, cb) ==
  IF w.internal.status # "pending"
  THEN setImmediate(w, cb, DriverStateError, Null)
  ELSE _start(w, cb)

\* stop(cb) with a slip: a driver that is stopping accepts stop() again.
stop_whileStopping(w, cb) ==
  IF w.internal.status \notin {"running", "stopping"}
       \/ w.internal.onDelayedStop # NULL
  THEN setImmediate(w, cb, DriverStateError, Null)
  ELSE LET w1 == [w EXCEPT !.internal.status = "stopping"] IN
       IF w1.internal.clientsActive # 0
       THEN [w1 EXCEPT !.internal._onDelayedStop = cb]
       ELSE _stop(_destroyPool(w1), cb)

\* SQLDriver.stop(cb)
stop(w, cb) ==
  IF w.internal.status # "running" \/ w.internal.onDelayedStop # NULL
  THEN setImmediate(w, cb, DriverStateError, Null)
  ELSE LET w1 == [w EXCEPT !.internal.status = "stopping"] IN
       IF w1.internal.clientsActive # 0
       THEN [w1 EXCEPT !.internal._onDelayedStop = cb]
       ELSE _stop(_destroyPool(w1), cb)

\* query(q, cb, tx) with a slip: the status test lets "stopping" pass.
query_whileStopping(w, q, cb, tx) ==
  LET qs == compile(q) IN
  IF tx # NULL THEN ClientQuery(w, tx, qs, cb)
  ELSE IF w.internal.status \notin {"running", "stopping"}
  THEN setImmediate(w, cb, DriverStateError, Null)
  ELSE IF w.internal.clientPool # NULL
  THEN ClientQuery(_getClientFromPool(w), w.internal.clientPool, qs, cb)
  ELSE _addToQueue(w, qs, cb)

\* query(q, cb, tx) with a slip: the status is tested before tx is looked at.
query_statusFirst(w, q, cb, tx) ==
  LET qs == compile(q) IN
  IF w.internal.status # "running"
  THEN setImmediate(w, cb, DriverStateError, Null)
  ELSE IF tx # NULL THEN ClientQuery(w, tx, qs, cb)
  ELSE IF w.internal.clientPool # NULL
  THEN ClientQuery(_getClientFromPool(w), w.internal.clientPool, qs, cb)
  ELSE _addToQueue(w, qs, cb)

\* SQLDriver.query(q, cb, tx); tx is NULL when it is not given.
query(w, q, cb, tx) ==
  LET qs == compile(q) IN
  IF tx # NULL THEN ClientQuery(w, tx, qs, cb)
  ELSE IF w.internal.status # "running"
  THEN setImmediate(w, cb, DriverStateError, Null)
  ELSE IF w.internal.clientPool # NULL
  THEN ClientQuery(_getClientFromPool(w), w.internal.clientPool, qs, cb)
  ELSE _addToQueue(w, qs, cb)

\* SQLDriver.begin(cb)
begin(w, cb) ==
  IF w.internal.status # "running"
  THEN setImmediate(w, cb, DriverStateError, Null)
  ELSE IF w.internal.clientPool # NULL
  THEN ClientBegin(_getClientFromPool(w), w.internal.clientPool, cb)
  ELSE _addToQueue(w, NullQs, cb)

\* ------------------------------------------------------------- application

\* A call of the API: what was called, on which transaction, with which SQL.
Request(op, client, q) == [op |-> op, client |-> client, q |-> q]

\* What the owner of a transaction may do after callback d was invoked: the
\* callback of begin hands over the client, the callback of a query of the
\* transaction lets its owner go on, the callback of commit or rollback ends
\* the transaction.
AfterCallback(h, reqs, d) ==
  LET r == reqs[d.cb] IN
  IF r.op = "begin" /\ d.err = Null /\ d.res.t = "client"
  THEN [h EXCEPT ![d.res.c] = "held"]
  ELSE IF r.op = "txquery" /\ h[r.client] = "busy"
  THEN [h EXCEPT ![r.client] = "held"]
  ELSE IF r.op \in {"commit", "rollback"} /\ h[r.client] = "ending"
  THEN [h EXCEPT ![r.client] = "none"]
  ELSE h

\* The callback of commit or rollback leaves its caller with a reference to
\* a transaction that has ended.
StaleAfterCallback(st, reqs, d) ==
  LET r == reqs[d.cb] IN
  IF r.op \in {"commit", "rollback"}
  THEN [st EXCEPT ![r.client] = TRUE]
  ELSE st

\* The end of a turn that leaves the program in state w; at most one user
\* callback is invoked in a turn.
Turn(w, reqs, h, qe) ==
  /\ internal' = w.internal
  /\ clients' = w.clients
  /\ nclients' = w.nclients
  /\ connecting' = w.connecting
  /\ inflight' = w.inflight
  /\ ended' = w.ended
  /\ immediates' = w.immediates
  /\ sent' = w.sent
  /\ delivered' = w.delivered
  /\ dispatched' = w.dispatched
  /\ requests' = reqs
  /\ handle' = IF Len(w.delivered) > Len(delivered)
               THEN AfterCallback(h, reqs, w.delivered[Len(w.delivered)])
               ELSE h
  /\ stale' = IF Len(w.delivered) > Len(delivered)
              THEN StaleAfterCallback(stale, reqs, w.delivered[Len(w.delivered)])
              ELSE stale
  /\ queryErrors' = qe
  /\ uncaught' = (uncaught \/ w.exc)
  /\ hung' = w.hung
  /\ UNCHANGED <<config, pgTypeParsers>>

\* The application may make another call.
CanCall == ~hung /\ Len(requests) < MaxRequests
NextCb == Len(requests) + 1

\* driver.start(cb)
Start ==
  /\ CanCall
  /\ Turn(start(World, NextCb), Append(requests, Request("start", NULL, <<>>)),
          handle, queryErrors)

\* driver.stop(cb)
Stop ==
  /\ CanCall
  /\ Turn(stop(World, NextCb), Append(requests, Request("stop", NULL, <<>>)),
          handle, queryErrors)

\* driver.query(q, cb)
Query ==
  /\ CanCall
  /\ Turn(query(World, QueryText(NextCb), NextCb, NULL),
          Append(requests, Request("query", NULL, QueryText(NextCb))),
          handle, queryErrors)

\* driver.begin(cb)
Begin ==
  /\ CanCall
  /\ Turn(begin(World, NextCb), Append(requests, Request("begin", NULL, <<>>)),
          handle, queryErrors)

\* driver.query(q, cb, tx) by the owner of transaction tx, whose previous call
\* has called back.
TxQuery(tx) ==
  /\ CanCall
  /\ handle[tx] = "held"
  /\ Turn(query(World, QueryText(NextCb), NextCb, tx),
          Append(requests, Request("txquery", tx, QueryText(NextCb))),
          [handle EXCEPT ![tx] = "busy"], queryErrors)

\* tx.commit(cb) or tx.commit(q, cb) by the owner of transaction tx.
TxCommit(tx, withQuery) ==
  LET q == IF withQuery THEN QueryText(NextCb) ELSE <<>> IN
  /\ CanCall
  /\ handle[tx] = "held"
  /\ Turn(ClientCommit(World, tx, q, NextCb),
          Append(requests, Request("commit", tx, q)),
          [handle EXCEPT ![tx] = "ending"], queryErrors)

\* tx.rollback(cb) by the owner of transaction tx.
TxRollback(tx) ==
  /\ CanCall
  /\ handle[tx] = "held"
  /\ Turn(ClientRollback(World, tx, NextCb),
          Append(requests, Request("rollback", tx, <<>>)),
          [handle EXCEPT ![tx] = "ending"], queryErrors)

\* tx.commit(cb) on a transaction that its owner has already ended.
StaleCommit(tx) ==
  /\ CanCall
  /\ stale[tx]
  /\ Turn(ClientCommit(World, tx, <<>>, NextCb),
          Append(requests, Request("stalecommit", tx, <<>>)),
          handle, queryErrors)

\* tx.rollback(cb) on a transaction that its owner has already ended.
StaleRollback(tx) ==
  /\ CanCall
  /\ stale[tx]
  /\ Turn(ClientRollback(World, tx, NextCb),
          Append(requests, Request("stalerollback", tx, <<>>)),
          handle, queryErrors)

\* ------------------------------------------------------------ event loop

\* The first callback of the setImmediate queue runs.
RunImmediate ==
  /\ ~hung
  /\ immediates # <<>>
  /\ LET i == Head(immediates) IN
     Turn(Call([World EXCEPT !.immediates = Tail(@)], i.cb, i.err, i.res),
          requests, handle, queryErrors)

\* The Backend answers a connect() call: connected.
ConnectOk ==
  /\ ~hung
  /\ connecting > 0
  /\ nclients < MaxClients
  /\ Turn(_onClientCreatedOk([World EXCEPT !.connecting = @ - 1]),
          requests, handle, queryErrors)

\* The Backend answers a connect() call with an error.
ConnectErr ==
  /\ ~hung
  /\ connecting > 0
  /\ Turn(_onClientCreatedErr([World EXCEPT !.connecting = @ - 1]),
          requests, handle, queryErrors)

\* The Backend answers the oldest query of a client with rows.
QueryOk(client) ==
  /\ ~hung
  /\ inflight[client] > 0
  /\ Turn(_onQuery([World EXCEPT !.inflight[client] = @ - 1], client, Null),
          requests, handle, queryErrors)

\* The Backend answers the oldest query of a client with an error.
QueryErr(client) ==
  /\ ~hung
  /\ inflight[client] > 0
  /\ queryErrors < MaxQueryErrors
  /\ Turn(_onQuery([World EXCEPT !.inflight[client] = @ - 1], client, BackendError),
          requests, handle, queryErrors + 1)

\* --------------------------------------------------------- specifications

\* The application uses a transaction as documented: one call at a time, and
\* none after commit() or rollback().
Next ==
  \/ Start
  \/ Stop
  \/ Query
  \/ Begin
  \/ \E tx \in ClientIds : TxQuery(tx)
  \/ \E tx \in ClientIds, withQuery \in BOOLEAN : TxCommit(tx, withQuery)
  \/ \E tx \in ClientIds : TxRollback(tx)
  \/ RunImmediate
  \/ ConnectOk
  \/ ConnectErr
  \/ \E client \in ClientIds : QueryOk(client)
  \/ \E client \in ClientIds : QueryErr(client)

Spec == Init /\ [][Next]_vars

\* The application may also call commit() or rollback() on a transaction
\* that has ended.
NextStale ==
  \/ Next
  \/ \E tx \in ClientIds : StaleCommit(tx)
  \/ \E tx \in ClientIds : StaleRollback(tx)

SpecStale == Init /\ [][NextStale]_vars

\* The program after new SQLDriver(app, config), as a world.
InitialWorld(maxConnections) ==
  [internal |-> NewInternal(maxConnections),
   clients |-> [c \in ClientIds |-> NewClient], nclients |-> 0,
   connecting |-> 0, inflight |-> [c \in ClientIds |-> 0],
   ended |-> [c \in ClientIds |-> 0],
   immediates |-> <<>>, sent |-> <<>>, delivered |-> <<>>, dispatched |-> <<>>,
   exc |-> FALSE, hung |-> FALSE]

\* The program after driver.start(cb) and the turn that invokes cb.
StartedWorld(maxConnections) ==
  LET w == start(InitialWorld(maxConnections), 1)
      i == Head(w.immediates) IN
  Call([w EXCEPT !.immediates = Tail(@)], i.cb, i.err, i.res)

\* The program after n further calls driver.query(q, cb) made in one turn,
\* as requests 2..n+1.
RECURSIVE BurstWorld(_, _)
BurstWorld(maxConnections, n) ==
  IF n = 0 THEN StartedWorld(maxConnections)
  ELSE query(BurstWorld(maxConnections, n - 1), QueryText(n + 1), n + 1, NULL)

\* The calls of the application that lead to BurstWorld(maxConnections, n).
BurstRequests(n) ==
  [r \in 1..(n + 1) |->
     IF r = 1 THEN Request("start", NULL, <<>>)
     ELSE Request("query", NULL, QueryText(r))]

\* A started driver on which the application has just issued a burst of
\* queries, back to back.
InitBurst ==
  \E m \in 1..MaxConnections, n \in 1..BurstQueries :
    LET w == BurstWorld(m, n) IN
    /\ internal = w.internal
    /\ clients = w.clients
    /\ nclients = w.nclients
    /\ connecting = w.connecting
    /\ inflight = w.inflight
    /\ ended = w.ended
    /\ immediates = w.immediates
    /\ sent = w.sent
    /\ delivered = w.delivered
    /\ dispatched = w.dispatched
    /\ requests = BurstRequests(n)
    /\ handle = [c \in ClientIds |-> "none"]
    /\ stale = [c \in ClientIds |-> FALSE]
    /\ queryErrors = 0
    /\ uncaught = w.exc
    /\ hung = w.hung
    /\ config = NoTypeParsers
    /\ pgTypeParsers = Undefined

\* After the burst the application waits: only the Backend acts.
NextBurst ==
  \/ ConnectOk
  \/ ConnectErr
  \/ \E client \in ClientIds : QueryOk(client)
  \/ \E client \in ClientIds : QueryErr(client)

SpecBurst == InitBurst /\ [][NextBurst]_vars

\* The program after driver.begin(cb) and n calls driver.query(q, cb) made in
\* one turn on a started driver, as requests 2 and 3..n+2.
RECURSIVE BacklogWorld(_, _)
BacklogWorld(maxConnections, n) ==
  IF n = 0 THEN begin(StartedWorld(maxConnections), 2)
  ELSE query(BacklogWorld(maxConnections, n - 1), QueryText(n + 2), n + 2, NULL)

\* The calls of the application that lead to BacklogWorld(maxConnections, n).
BacklogRequests(n) ==
  [r \in 1..(n + 2) |->
     IF r = 1 THEN Request("start", NULL, <<>>)
     ELSE IF r = 2 THEN Request("begin", NULL, <<>>)
     ELSE Request("query", NULL, QueryText(r))]

\* A started driver on which the application has just asked for a
\* transaction and issued queries behind it.
InitBacklog ==
  \E m \in 1..MaxConnections, n \in 1..MaxBacklog :
    LET w == BacklogWorld(m, n) IN
    /\ internal = w.internal
    /\ clients = w.clients
    /\ nclients = w.nclients
    /\ connecting = w.connecting
    /\ inflight = w.inflight
    /\ ended = w.ended
    /\ immediates = w.immediates
    /\ sent = w.sent
    /\ delivered = w.delivered
    /\ dispatched = w.dispatched
    /\ requests = BacklogRequests(n)
    /\ handle = [c \in ClientIds |-> "none"]
    /\ stale = [c \in ClientIds |-> FALSE]
    /\ queryErrors = 0
    /\ uncaught = w.exc
    /\ hung = w.hung
    /\ config = NoTypeParsers
    /\ pgTypeParsers = Undefined

\* tx.commit(cb) or tx.commit(q, cb) by the owner of the transaction that was
\* asked for.
OwnerCommit(tx, withQuery) ==
  LET q == IF withQuery THEN QueryText(NextCb) ELSE <<>> IN
  /\ ~hung
  /\ handle[tx] = "held"
  /\ Turn(ClientCommit(World, tx, q, NextCb),
          Append(requests, Request("commit", tx, q)),
          [handle EXCEPT ![tx] = "ending"], queryErrors)

\* tx.rollback(cb) by the owner of the transaction that was asked for.
OwnerRollback(tx) ==
  /\ ~hung
  /\ handle[tx] = "held"
  /\ Turn(ClientRollback(World, tx, NextCb),
          Append(requests, Request("rollback", tx, <<>>)),
          [handle EXCEPT ![tx] = "ending"], queryErrors)

\* After these calls the Backend answers, callbacks run, and the owner of
\* the transaction ends it.
NextBacklog ==
  \/ RunImmediate
  \/ ConnectOk
  \/ ConnectErr
  \/ \E client \in ClientIds : QueryOk(client)
  \/ \E client \in ClientIds : QueryErr(client)
  \/ \E tx \in ClientIds, withQuery \in BOOLEAN : OwnerCommit(tx, withQuery)
  \/ \E tx \in ClientIds : OwnerRollback(tx)

SpecBacklog == InitBacklog /\ [][NextBacklog]_vars

\* The arrays of at most n type parsers.
RECURSIVE TypeParserArrays(_)
TypeParserArrays(n) ==
  IF n = 0 THEN {<<>>}
  ELSE LET shorter == TypeParserArrays(n - 1) IN
       shorter \cup {Append(a, e) : a \in {b \in shorter : Len(b) = n - 1},
                                    e \in InputEntries}

\* new PGSQLDriver(app, config) has run the constructor of SQLDriver and is
\* about to look at config.pgTypeParsers.
InitTypeParsers ==
  /\ \E m \in 1..MaxConnections : internal = NewInternal(m)
  /\ clients = [c \in ClientIds |-> NewClient]
  /\ nclients = 0
  /\ connecting = 0
  /\ inflight = [c \in ClientIds |-> 0]
  /\ ended = [c \in ClientIds |-> 0]
  /\ immediates = <<>>
  /\ sent = <<>>
  /\ delivered = <<>>
  /\ dispatched = <<>>
  /\ requests = <<>>
  /\ handle = [c \in ClientIds |-> "none"]
  /\ stale = [c \in ClientIds |-> FALSE]
  /\ queryErrors = 0
  /\ uncaught = FALSE
  /\ hung = FALSE
  /\ \/ config = NoTypeParsers
     \/ \E input \in TypeParserArrays(MaxTypeParsers) :
          config = GivenTypeParsers(input)
  /\ pgTypeParsers = Pending

\* The end of the constructor of PGSQLDriver: PostgreSQL specific options.
Construct ==
  /\ pgTypeParsers = Pending
  /\ pgTypeParsers' = IF config.given
                      THEN normalizeTypeParsers(config.pgTypeParsers)
                      ELSE Undefined
  /\ uncaught' = (pgTypeParsers' = ConfigurationError)
  /\ UNCHANGED <<internal, clients, nclients, connecting, inflight, ended,
                 immediates, sent, delivered, dispatched, requests, handle,
                 stale, queryErrors, hung, config>>

NextTypeParsers == Construct

SpecTypeParsers == InitTypeParsers /\ [][NextTypeParsers]_vars

\* ------------------------------------------------------- reading the logs

\* The callbacks waiting in the setImmediate queue and those invoked.
Scheduled(cb) == {i \in DOMAIN immediates : immediates[i].cb = cb}
Invoked(cb) == {i \in DOMAIN delivered : delivered[i].cb = cb}

\* Request r was refused because of the driver status.
Refused(r) ==
  \/ \E i \in Scheduled(r) : immediates[i].err = DriverStateError
  \/ \E i \in Invoked(r) : delivered[i].err = DriverStateError

\* Request r asks for work: a query or a transaction, or a call on a
\* transaction.
IsWork(r) ==
  requests[r].op \in {"query", "begin", "txquery", "commit", "rollback"}

\* Request r was admitted: it asks for work and was not refused.
Admitted(r) == IsWork(r) /\ ~Refused(r)

\* The stop() calls that were accepted (status was running).
AcceptedStops ==
  {r \in DOMAIN requests : requests[r].op = "stop" /\ ~Refused(r)}

\* Nothing is pending: the setImmediate queue is empty and the Backend has
\* answered every connect and query call.
Quiescent ==
  /\ immediates = <<>>
  /\ connecting = 0
  /\ \A c \in ClientIds : inflight[c] = 0

\* --------------------------------------------------------------------- C1

\* C1: in every reachable state 0 <= clientsActive <= clientsCount <=
\* clientsMaximum, also while stopping and after the idle pool was destroyed.
C1_CountersOrdered ==
  /\ 0 <= internal.clientsActive
  /\ internal.clientsActive <= internal.clientsCount
  /\ internal.clientsCount <= internal.clientsMaximum

\* --------------------------------------------------------------------- C2

\* C2: the callback of every request is invoked exactly once: never twice,
\* and once the Backend has answered every call and no callback is waiting
\* to run, no request is left without its callback.
C2_ExactlyOneCallback ==
  /\ \A r \in DOMAIN requests : Cardinality(Invoked(r)) <= 1
  /\ Quiescent =>
       \A r \in DOMAIN requests :
         IsWork(r) => Cardinality(Invoked(r)) = 1

\* --------------------------------------------------------------------- C3

\* C3: a stop(cb) accepted while clients are active is delayed; once the last
\* active client is released and status is stopped, that cb has been
\* scheduled or invoked exactly once, with (null).  (A stop() accepted with
\* no active client calls back at once and satisfies the same statement.)
C3_DelayedStopCallsBack ==
  internal.status = "stopped" =>
    \A r \in AcceptedStops :
      /\ Cardinality(Scheduled(r)) + Cardinality(Invoked(r)) = 1
      /\ \A i \in Scheduled(r) : immediates[i].err = Null
      /\ \A i \in Invoked(r) : delivered[i].err = Null

\* --------------------------------------------------------------------- C4

\* C4: stop() cancels nothing: when status is stopped, and so when the stop
\* callback runs, every request admitted before the accepted stop() call has
\* had its callback invoked.
C4_StopCancelsNothing ==
  internal.status = "stopped" =>
    \A s \in AcceptedStops :
      \A r \in 1..(s - 1) : Admitted(r) => Invoked(r) # {}

\* --------------------------------------------------------------------- C5

\* The step is a call of driver.query(q, cb) without tx or of driver.begin(cb).
IsDriverCall ==
  /\ Len(requests') = Len(requests) + 1
  /\ requests'[Len(requests')].op \in {"query", "begin"}

\* C5: while status is not running, driver.query without tx and driver.begin
\* schedule a DriverState error for cb and change nothing else: the work
\* queue, the pool, the counters and the clients stay as they are, no
\* connection is requested and nothing is sent to the Backend.
C5_RefusedUnlessRunning ==
  [][(IsDriverCall /\ internal.status # "running") =>
       /\ immediates' = Append(immediates,
            [cb |-> Len(requests'), err |-> DriverStateError, res |-> Null])
       /\ internal' = internal
       /\ clients' = clients
       /\ connecting' = connecting
       /\ inflight' = inflight
       /\ sent' = sent
       /\ dispatched' = dispatched]_vars

\* A query was refused after stop() was accepted, and the driver is still
\* stopping.
C5_Witness ==
  /\ internal.status = "stopping"
  /\ \E s \in AcceptedStops :
       \E r \in DOMAIN requests :
         r > s /\ requests[r].op = "query" /\ Refused(r)

\* --------------------------------------------------------------------- C6

\* The last statement sent on a client.
SentOn(client) == {i \in DOMAIN sent : sent[i].client = client}
LastSentOn(client) ==
  sent[CHOOSE i \in SentOn(client) : \A j \in SentOn(client) : j <= i]

\* C6: a client has at most one Backend query outstanding, and while it is
\* outstanding the client's stored query string and callback are those of
\* that query.
C6_OneQueryPerClient ==
  \A c \in ClientIds :
    /\ inflight[c] <= 1
    /\ inflight[c] = 1 =>
         /\ clients[c]._cb # NULL
         /\ LastSentOn(c).cb = clients[c]._cb
         /\ LastSentOn(c).qs = clients[c]._qs
    /\ inflight[c] = 0 => clients[c]._cb = NULL

\* A client is busy with a query while another request waits in the queue
\* and no further client may be created.
C6_Witness ==
  \E c \in ClientIds :
    /\ inflight[c] = 1
    /\ internal.queue # <<>>
    /\ internal.clientsCount = internal.clientsMaximum

\* --------------------------------------------------------------------- C7

\* The owner of a transaction on the client may still call it.
Held(client) == handle[client] \in {"held", "busy"}

\* The clients linked from the pool's head by _next, at most n of them.
RECURSIVE PoolFrom(_, _)
PoolFrom(client, n) ==
  IF client = NULL \/ n = 0 THEN <<>>
  ELSE <<client>> \o PoolFrom(clients[client]._next, n - 1)

PoolList == PoolFrom(internal.clientPool, MaxClients + 1)

\* C7: a client is active, pooled or destroyed, and only one of them: the
\* idle pool holds no client twice, and a client linked in the pool is not
\* destroyed, runs no query and is held by no transaction.
C7_OneStatePerClient ==
  /\ \A i, j \in DOMAIN PoolList : i # j => PoolList[i] # PoolList[j]
  /\ \A i \in DOMAIN PoolList :
       LET c == PoolList[i] IN
       /\ ended[c] = 0
       /\ inflight[c] = 0
       /\ ~Held(c)
       /\ clients[c]._pooled
  /\ \A c \in ClientIds :
       ended[c] > 0 => (ended[c] = 1 /\ inflight[c] = 0 /\ ~Held(c))

\* --------------------------------------------------------------------- C8

\* Requests are numbered in the order of the calls, and a request enters the
\* queue during its call: the order of enqueueing is the order of the numbers.

\* C8: the items of the work queue are dispatched in the order in which they
\* were enqueued, queries and begin requests alike.
C8_FifoDispatch ==
  /\ \A i, j \in DOMAIN dispatched :
       i < j => dispatched[i].cb < dispatched[j].cb
  /\ \A i \in DOMAIN dispatched : \A k \in DOMAIN internal.queue :
       dispatched[i].cb < internal.queue[k].cb
  /\ \A k, l \in DOMAIN internal.queue :
       k < l => internal.queue[k].cb < internal.queue[l].cb

\* A begin request and a query were both dispatched from the queue.
C8_Witness ==
  \E i, j \in DOMAIN dispatched :
    /\ i # j
    /\ requests[dispatched[i].cb].op = "begin"
    /\ requests[dispatched[j].cb].op = "query"

\* --------------------------------------------------------------------- C9

\* The client that took request r from the work queue, if any.
Dispatches(r) == {i \in DOMAIN dispatched : dispatched[i].cb = r}
ServedBy(r) == dispatched[CHOOSE i \in Dispatches(r) : TRUE].client

\* Callback invocation d reports success.
Succeeded(d) == d.err = Null /\ d.res.t \in {"rows", "client"}

\* C9 as claimed: of two requests that went through the queue and succeeded,
\* the one enqueued first has its callback invoked first.
C9_CallbackOrder ==
  \A i, j \in DOMAIN delivered :
    (/\ i < j
     /\ Dispatches(delivered[i].cb) # {} /\ Dispatches(delivered[j].cb) # {}
     /\ Succeeded(delivered[i]) /\ Succeeded(delivered[j]))
    => delivered[i].cb < delivered[j].cb

\* C9 as amended: the same, for two requests served by the same client.
C9_CallbackOrderSameClient ==
  \A i, j \in DOMAIN delivered :
    (/\ i < j
     /\ Dispatches(delivered[i].cb) # {} /\ Dispatches(delivered[j].cb) # {}
     /\ ServedBy(delivered[i].cb) = ServedBy(delivered[j].cb)
     /\ Succeeded(delivered[i]) /\ Succeeded(delivered[j]))
    => delivered[i].cb < delivered[j].cb

\* Two queued requests were served by the same client and both succeeded.
C9_Witness ==
  \E i, j \in DOMAIN delivered :
    /\ i < j
    /\ Dispatches(delivered[i].cb) # {} /\ Dispatches(delivered[j].cb) # {}
    /\ ServedBy(delivered[i].cb) = ServedBy(delivered[j].cb)
    /\ Succeeded(delivered[i]) /\ Succeeded(delivered[j])

\* -------------------------------------------------------------------- C10

\* The calls made on a client before the current one, and the last of them.
CallsOn(client) == {r \in DOMAIN requests : requests[r].client = client}
LastCallOn(client) ==
  requests[CHOOSE r \in CallsOn(client) : \A q \in CallsOn(client) : q <= r]

\* The step is commit() without a query, or rollback(), by the owner of a
\* transaction in which no statement has been sent: the owner's first call
\* on the client since begin handed it over.
IsEmptyEnd ==
  /\ Len(requests') = Len(requests) + 1
  /\ LET r == requests'[Len(requests')] IN
     /\ r.op \in {"commit", "rollback"}
     /\ r.q = <<>>
     /\ CallsOn(r.client) # {} => LastCallOn(r.client).op # "txquery"

\* The statements sent to the Backend in the step.
NewlySent == {sent'[i] : i \in (Len(sent) + 1)..Len(sent')}

C11_EmptyEndLeavesTransaction ==
  [][(IsEmptyEnd /\ internal.status = "running") =>
       LET c == requests'[Len(requests')].client IN
       /\ clients'[c]._txId = NoTx
       /\ clients'[c]._txState = ""
       /\ clients'[c]._returnToPool]_vars

\* -------------------------------------------------------------------- C12

\* The operations the application has called, in order.
Ops == [r \in DOMAIN requests |-> requests[r].op]

\* The application has called start, begin, query(X) in the transaction and
\* commit() without a query, and nothing else.
BeginQueryCommit ==
  /\ Ops = <<"start", "begin", "txquery", "commit">>
  /\ requests[4].q = <<>>

\* C12: with maxConnections = 1, after begin, query(X) and commit() the
\* Backend has received exactly two statements on the transaction's client,
\* first "BEGIN;\n" + X for the callback of query and then "COMMIT;" for the
\* callback of commit; once the Backend has answered them, the client is in
\* the idle pool, out of the transaction.
C12_LazyBegin ==
  (internal.clientsMaximum = 1 /\ BeginQueryCommit) =>
    LET c == requests[3].client IN
    /\ sent = <<[client |-> c, qs |-> BEGIN \o requests[3].q, cb |-> 3],
                [client |-> c, qs |-> COMMIT, cb |-> 4]>>
    /\ inflight[c] = 0 =>
         /\ PoolList = <<c>>
         /\ clients[c]._pooled
         /\ clients[c]._txId = NoTx
         /\ ended[c] = 0
         /\ internal.clientsActive = 0

\* begin, query(X), commit() with maxConnections = 1: the callback of commit
\* was invoked and the client is back in the pool.
C12_Witness ==
  /\ internal.clientsMaximum = 1
  /\ BeginQueryCommit
  /\ Invoked(4) # {}
  /\ PoolList = <<requests[3].client>>

\* -------------------------------------------------------------------- C13

\* The application has called start, begin and commit(X) with a query, and
\* nothing else.
BeginCommitWithQuery ==
  /\ Ops = <<"start", "begin", "commit">>
  /\ requests[3].q # <<>>

\* C13 as claimed: after begin, query(X) and commit() the Backend has
\* received exactly one statement, "BEGIN;\n" + X + "\nCOMMIT;".
C13_OneCallForQueryThenCommit ==
  BeginQueryCommit =>
    /\ Len(sent) = 1
    /\ sent[1].qs = BEGIN \o requests[3].q \o NewlineCommit

\* C13 as amended: the single statement "BEGIN;\n" + X + "\nCOMMIT;" is what
\* begin and commit(X) send, X given to commit and no query before it; begin,
\* query(X) and commit() send two statements, "BEGIN;\n" + X and "COMMIT;".
C13_OneCallForCommitWithQuery ==
  /\ BeginCommitWithQuery =>
       sent = <<[client |-> requests[3].client,
                 qs |-> BEGIN \o requests[3].q \o NewlineCommit, cb |-> 3]>>
  /\ BeginQueryCommit =>
       /\ Len(sent) = 2
       /\ sent[1].qs = BEGIN \o requests[3].q
       /\ sent[2].qs = COMMIT

\* begin, then commit(X): the Backend answered the one statement and the
\* callback of commit was invoked with the rows.
C13_Witness ==
  /\ BeginCommitWithQuery
  /\ Len(sent) = 1
  /\ \E i \in Invoked(3) : delivered[i].res = Rows

\* -------------------------------------------------------------------- C14

\* The step is a call of commit by the owner of a transaction.
IsCommitCall ==
  /\ Len(requests') = Len(requests) + 1
  /\ requests'[Len(requests')].op = "commit"

\* A statement has been sent in the transaction that is open on the client:
\* its owner's last call on the client was a query.
SentInTransaction(client) ==
  CallsOn(client) # {} /\ LastCallOn(client).op = "txquery"

\* The SQL that commit sends for query q (empty when q is not given).
CommitText(q, sentBefore) ==
  IF ~sentBefore THEN BEGIN \o q \o NewlineCommit
  ELSE IF q # <<>> THEN q \o NewlineCommit
  ELSE COMMIT

\* C14: commit on a client in a transaction, other than the empty commit of
\* C10, sends exactly one statement, for the callback of commit:
\* "BEGIN;\n" + q + "\nCOMMIT;" when q is given and no statement was sent
\* before in the transaction, q + "\nCOMMIT;" when q is given and a statement
\* was sent before, "COMMIT;" when q is not given and a statement was sent
\* before; _txState becomes COMMIT and _returnToPool becomes true.
C14_CommitSendsOneStatement ==
  [][(IsCommitCall /\ ~IsEmptyEnd) =>
       LET r == requests'[Len(requests')] IN
       /\ sent' = Append(sent,
            [client |-> r.client,
             qs |-> CommitText(r.q, SentInTransaction(r.client)),
             cb |-> Len(requests')])
       /\ clients'[r.client]._txState = "COMMIT"
       /\ clients'[r.client]._returnToPool]_vars

\* commit(q) was called after a query of the transaction: the Backend
\* received q + "\nCOMMIT;".
C14_Witness ==
  \E i \in DOMAIN sent :
    LET r == requests[sent[i].cb] IN
    /\ r.op = "commit"
    /\ r.q # <<>>
    /\ sent[i].qs = r.q \o NewlineCommit

\* -------------------------------------------------------------------- C15

\* The application has called start, begin, query(X) in the transaction and
\* rollback(), and nothing else.
BeginQueryRollback ==
  Ops = <<"start", "begin", "txquery", "rollback">>

\* The step is the Backend's answer to the statement that commit or rollback
\* sent on the client.
IsEndAnswered(client) ==
  /\ clients[client]._cb # NULL
  /\ requests[clients[client]._cb].op \in {"commit", "rollback"}
  /\ Len(delivered') = Len(delivered) + 1
  /\ delivered'[Len(delivered')].cb = clients[client]._cb

\* C15: begin, query(X), rollback() sends exactly two statements, "BEGIN;\n"
\* + X and then "ROLLBACK;"; and while the driver is running, when the
\* Backend has answered the statement of a commit or rollback, the client is
\* out of the transaction (_txId = -1, _txState = "") at the end of that
\* turn, in the idle pool or serving the next item of the work queue.
C15_EndedBeforeNextRequest ==
  /\ [](BeginQueryRollback =>
          LET c == requests[3].client IN
          sent = <<[client |-> c, qs |-> BEGIN \o requests[3].q, cb |-> 3],
                   [client |-> c, qs |-> ROLLBACK, cb |-> 4]>>)
  /\ [][\A c \in ClientIds :
          (IsEndAnswered(c) /\ internal.status = "running") =>
            /\ clients'[c]._txId = NoTx
            /\ clients'[c]._txState = ""]_vars

\* -------------------------------------------------------------------- C16

\* The step is the Backend's answer to a connect() call: an error, or a
\* connection, for which a client is constructed.
IsConnectErr == internal'.failuresCount = internal.failuresCount + 1
IsConnectOk == nclients' = nclients + 1

BurstCalls == {r \in DOMAIN requests : requests[r].op = "query"}

\* maxConnections = 2, at least two queries in the burst, and the Backend has
\* failed no connection and no query.
BurstOnTwoConnections ==
  /\ internal.clientsMaximum = 2
  /\ Cardinality(BurstCalls) >= 2
  /\ internal.failuresCount = 0
  /\ queryErrors = 0

\* Exactly two connections are made, every callback invoked reports success,
\* none is invoked twice, and when the Backend has answered everything, every
\* query of the burst has called back, clientsCount = 2, clientsActive = 0
\* and both clients are in the idle pool.
BurstOutcome ==
  /\ nclients + connecting = 2
  /\ internal.clientsCount = 2
  /\ \A i \in DOMAIN delivered :
       delivered[i].cb = 1 \/ (delivered[i].err = Null /\ delivered[i].res = Rows)
  /\ \A r \in BurstCalls : Cardinality(Invoked(r)) <= 1
  /\ Quiescent =>
       /\ \A r \in BurstCalls : Invoked(r) # {}
       /\ internal.queue = <<>>
       /\ internal.clientsActive = 0
       /\ {PoolList[i] : i \in DOMAIN PoolList} = {1, 2}
       /\ Len(PoolList) = 2

\* C17 as claimed: after a burst of queries (the spec's case: 5) on a started
\* driver with maxConnections = 2 and an empty pool, BurstOutcome holds and
\* the callbacks are invoked in the order in which the queries were issued.
C17_BurstInArrivalOrder ==
  BurstOnTwoConnections =>
    /\ BurstOutcome
    /\ \A i, j \in DOMAIN delivered :
         i < j => delivered[i].cb < delivered[j].cb

\* C17 as amended: the same, with the order of the callbacks kept only among
\* the queries served by the same client.
C17_BurstInArrivalOrderPerClient ==
  BurstOnTwoConnections =>
    /\ BurstOutcome
    /\ \A i, j \in DOMAIN delivered :
         (/\ i < j
          /\ Dispatches(delivered[i].cb) # {} /\ Dispatches(delivered[j].cb) # {}
          /\ ServedBy(delivered[i].cb) = ServedBy(delivered[j].cb))
         => delivered[i].cb < delivered[j].cb

\* The burst of five queries was served to the end by two clients.
C17_Witness ==
  /\ BurstOnTwoConnections
  /\ Cardinality(BurstCalls) = 5
  /\ Quiescent
  /\ \A r \in BurstCalls : Invoked(r) # {}
  /\ Len(PoolList) = 2

\* -------------------------------------------------------------------- C18

\* The step is the Backend's answer, an error, to the query that runs on the
\* client.
QueryFailedOn(client) ==
  /\ queryErrors' = queryErrors + 1
  /\ clients[client]._cb # NULL
  /\ clients'[client]._cb # clients[client]._cb

\* C18: while the driver is running, when the Backend fails the query of a
\* client that is to be released after the query, the error is passed to the
\* callback of the query, the driver status stays as it is, and the client is
\* destroyed (end() is called on its connection and clientsCount is
\* decremented), not put in the idle pool.
C18_FailedClientDestroyed ==
  [][\A c \in ClientIds :
       (/\ QueryFailedOn(c)
        /\ clients[c]._returnToPool
        /\ internal.status = "running") =>
         /\ delivered' = Append(delivered,
              [cb |-> clients[c]._cb, err |-> BackendError, res |-> Null])
         /\ internal'.status = internal.status
         /\ ended'[c] = ended[c] + 1
         /\ internal'.clientsCount = internal.clientsCount - 1
         /\ internal'.clientPool # c
         /\ ~clients'[c]._pooled]_vars

\* -------------------------------------------------------------------- C19

\* The callbacks scheduled in the step that report a TransactionState error:
\* begin on a client in a transaction, commit or rollback on a client that is
\* in none.
NewTransactionStateErrors ==
  {k \in DOMAIN immediates' :
     /\ \A j \in DOMAIN immediates : immediates[j] # immediates'[k]
     /\ TransactionStateError \in {immediates'[k].err, immediates'[k].res}}

\* C19: a call that fails with TransactionState schedules its callback with
\* the error as the error argument and no result, and nothing is sent to the
\* Backend in that turn.
C19_TransactionStateReported ==
  [][\A k \in NewTransactionStateErrors :
       /\ immediates'[k].err = TransactionStateError
       /\ immediates'[k].res = Null
       /\ sent' = sent]_vars

\* -------------------------------------------------------------------- C20

\* The step is a call of driver.start(cb), of driver.stop(cb).
IsStartCall ==
  /\ Len(requests') = Len(requests) + 1
  /\ requests'[Len(requests')].op = "start"
IsStopCall ==
  /\ Len(requests') = Len(requests) + 1
  /\ requests'[Len(requests')].op = "stop"

\* C20: start(cb) in status pending sets the status to running, schedules
\* cb(null) and changes nothing else; start(cb) in any other status and
\* stop(cb) in any status but running schedule cb with a DriverState error
\* and change nothing else: status, counters, idle pool, work queue and the
\* recorded delayed-stop callback, the clients and what the Backend was asked
\* stay as they are.
C20_StartStopRefused ==
  [][/\ (IsStartCall /\ internal.status = "pending") =>
          /\ internal' = [internal EXCEPT !.status = "running"]
          /\ immediates' = Append(immediates,
               [cb |-> Len(requests'), err |-> Null, res |-> Null])
          /\ clients' = clients
     /\ (\/ IsStartCall /\ internal.status # "pending"
         \/ IsStopCall /\ internal.status # "running") =>
          /\ immediates' = Append(immediates,
               [cb |-> Len(requests'), err |-> DriverStateError, res |-> Null])
          /\ internal' = internal
          /\ clients' = clients
          /\ connecting' = connecting
          /\ inflight' = inflight
          /\ ended' = ended
          /\ sent' = sent]_vars

\* stop() was accepted while a client was active, and a second stop() was
\* refused while the driver is still stopping.
C20_Witness ==
  /\ internal.status = "stopping"
  /\ internal._onDelayedStop # NULL
  /\ \E s \in AcceptedStops :
       \E r \in DOMAIN requests :
         r > s /\ requests[r].op = "stop" /\ Refused(r)

\* -------------------------------------------------------------------- C21

\* The statuses of a driver, in the order of its life.
StatusOrder == <<"pending", "starting", "running", "stopping", "stopped">>
StatusRank(status) == CHOOSE i \in DOMAIN StatusOrder : StatusOrder[i] = status

\* C21: the status is one of pending, starting, running, stopping, stopped,
\* and no step, whether a call, a callback, an answer of the Backend or an
\* error, moves it to an earlier one.
C21_StatusMovesForward ==
  /\ [](internal.status \in {StatusOrder[i] : i \in DOMAIN StatusOrder})
  /\ [][StatusRank(internal'.status) >= StatusRank(internal.status)]_vars

\* The driver has stopped, after a connection attempt and a query had failed
\* and a call had been refused with a DriverState error.
C21_Witness ==
  /\ internal.status = "stopped"
  /\ internal.failuresCount > 0
  /\ queryErrors > 0
  /\ \E r \in DOMAIN requests : Refused(r)

\* -------------------------------------------------------------------- C22

\* The step changes the status to stopped.
BecomesStopped == internal.status # "stopped" /\ internal'.status = "stopped"

\* C22: the status changes to stopped at most once, it never leaves stopped,
\* and in the state in which it has become stopped clientsActive is 0.
C22_StoppedOnceWhenIdle ==
  /\ [][internal.status = "stopped" => internal'.status = "stopped"]_vars
  /\ [][BecomesStopped => internal'.clientsActive = 0]_vars

\* -------------------------------------------------------------------- C23

\* C23 as claimed: the work queue is non-empty only if no client has been
\* created yet, or clientsCount = clientsMaximum and no client is idle in the
\* pool.
C23_QueueOnlyWhenSaturated ==
  internal.queue # <<>> =>
    \/ nclients = 0
    \/ (internal.clientsCount = internal.clientsMaximum /\ PoolList = <<>>)

\* C23 as amended: the work queue is non-empty only if no client is idle in
\* the pool, so that every client there is, if any, is active; and then
\* clientsCount = clientsMaximum unless a connection attempt is under way or
\* one has failed.
C23_QueueOnlyWhenNoneIdle ==
  internal.queue # <<>> =>
    /\ PoolList = <<>>
    /\ \/ connecting > 0
       \/ internal.failuresCount > 0
       \/ internal.clientsCount = internal.clientsMaximum

\* A request waits in the queue while the only client is active and, a
\* connection attempt having failed, clientsCount is below clientsMaximum.
C23_Witness ==
  /\ internal.queue # <<>>
  /\ nclients = 1
  /\ inflight[1] = 1
  /\ connecting = 0
  /\ internal.failuresCount = 1
  /\ internal.clientsCount < internal.clientsMaximum

\* -------------------------------------------------------------------- C24

\* C24: a callback invoked in a step belongs to a request made in an earlier
\* step: no call of start, stop, query, begin, commit or rollback invokes its
\* own callback, with a result or with an error, before it returns.
C24_CallbacksAreAsynchronous ==
  [][\A i \in DOMAIN delivered' :
       i > Len(delivered) => delivered'[i].cb <= Len(requests)]_vars

\* A callback has received a DriverState error, another one the rows of a
\* query, another one the client of a transaction.
C24_Witness ==
  /\ \E i \in DOMAIN delivered : delivered[i].err = DriverStateError
  /\ \E i \in DOMAIN delivered : delivered[i].res = Rows
  /\ \E i \in DOMAIN delivered : delivered[i].res.t = "client"

\* -------------------------------------------------------------------- C25

\* Every name in the input is a name of the table.
AllNamesKnown(input) ==
  \A i \in DOMAIN input :
    input[i].type.t = "string" =>
      input[i].type.s \in {"BOOL", "INT8", "INT4", "TEXT", "JSONB"}

\* C25: normalizeTypeParsers(input), for an input all of whose names are in
\* the table, returns as many entries as the input has, in the same order,
\* each with the format and the parser of the input's entry and with its type
\* if that is a number, with the OID of its name otherwise ("JSONB" 3802,
\* "INT4" 23); for an input with a name that is not in the table it throws
\* the Configuration error and there is no output.
C25_NormalizeTypeParsers ==
  (config.given /\ pgTypeParsers # Pending) =>
    LET input == config.pgTypeParsers
        output == pgTypeParsers.output IN
    IF AllNamesKnown(input)
    THEN /\ pgTypeParsers.state = "set"
         /\ Len(output) = Len(input)
         /\ \A i \in DOMAIN input :
              /\ output[i].format = input[i].format
              /\ output[i].parser = input[i].parser
              /\ output[i].type.t = "number"
              /\ input[i].type.t = "number" => output[i].type = input[i].type
              /\ input[i].type.s = "JSONB" => output[i].type.n = 3802
              /\ input[i].type.s = "INT4" => output[i].type.n = 23
    ELSE /\ pgTypeParsers.state = "thrown"
         /\ output = <<>>
         /\ uncaught

\* Two type parsers, "JSONB" and the number 23, were normalized.
C25_Witness ==
  /\ config.given
  /\ Len(config.pgTypeParsers) = 2
  /\ config.pgTypeParsers[1].type = TypeName("JSONB")
  /\ config.pgTypeParsers[2].type = TypeOid(23)
  /\ pgTypeParsers.state = "set"

\* -------------------------------------------------------------------- C26

\* The client is at work: it runs a query or is held by a transaction.
AtWork(client) == inflight[client] > 0 \/ Held(client)

\* C26: every client linked in the idle pool has _txId = -1, _txState = "",
\* _pooled = true and _returnToPool = true, from the state in which it is
\* pushed onto the pool; a client that was taken from the pool and is at
\* work has _pooled = false.
C26_PooledClientsAreReset ==
  /\ \A i \in DOMAIN PoolList :
       LET c == clients[PoolList[i]] IN
       /\ c._txId = NoTx
       /\ c._txState = ""
       /\ c._pooled
       /\ c._returnToPool
  /\ \A c \in ClientIds : AtWork(c) => ~clients[c]._pooled

\* A client that committed a transaction entered the idle pool, was taken
\* from it by a query and runs that query.
C26_Witness ==
  \E c \in ClientIds :
    /\ \E r \in CallsOn(c) : requests[r].op = "commit" /\ requests[r].q # <<>>
    /\ inflight[c] > 0
    /\ requests[LastSentOn(c).cb].op = "query"
    /\ Dispatches(LastSentOn(c).cb) = {}
    /\ ~clients[c]._pooled
    /\ clients[c]._txId = NoTx

\* -------------------------------------------------------------------- C27

\* The Backend's next answer on the client releases it: it runs a query after
\* which it is to be released, and no request waits in the queue.
AboutToBeReleased(client) ==
  /\ inflight[client] = 1
  /\ clients[client]._returnToPool
  /\ internal.queue = <<>>

\* The program when _onQuery calls _releaseClient(client), and after the call.
BeforeRelease(client) ==
  [World EXCEPT !.inflight[client] = @ - 1,
                !.clients[client]._qs = <<>>,
                !.clients[client]._cb = NULL]
AfterRelease(client) == _releaseClient(BeforeRelease(client), client)

\* C27: _releaseClient(client) while the status is not running, or with
\* _failed set, calls end() on the client, decreases clientsCount and
\* clientsActive by exactly one each and leaves the client out of the idle
\* pool; in status running with _failed false it decreases clientsActive by
\* one, pushes the client onto the pool and leaves clientsCount, the status
\* and the work queue as they are.
C27_ReleaseFrame ==
  \A c \in ClientIds :
    AboutToBeReleased(c) =>
      LET w == BeforeRelease(c)
          w2 == AfterRelease(c) IN
      IF internal.status # "running" \/ clients[c]._failed
      THEN /\ w2.ended[c] = w.ended[c] + 1
           /\ w2.internal.clientsCount = w.internal.clientsCount - 1
           /\ w2.internal.clientsActive = w.internal.clientsActive - 1
           /\ w2.internal.clientPool # c
           /\ ~w2.clients[c]._pooled
      ELSE /\ w2.ended = w.ended
           /\ w2.internal.clientsActive = w.internal.clientsActive - 1
           /\ w2.internal.clientsCount = w.internal.clientsCount
           /\ w2.internal.clientPool = c
           /\ w2.clients[c]._next = w.internal.clientPool
           /\ w2.clients[c]._pooled
           /\ w2.internal.status = w.internal.status
           /\ w2.internal.queue = w.internal.queue

\* -------------------------------------------------------------------- C28

\* The step is a call on a transaction by its owner: driver.query(q, cb, tx),
\* tx.commit or tx.rollback.
IsTxCall ==
  /\ Len(requests') = Len(requests) + 1
  /\ requests'[Len(requests')].op \in {"txquery", "commit", "rollback"}

\* The SQL that the call r on a transaction sends.
TxCallText(r) ==
  IF r.op = "txquery"
  THEN (IF SentInTransaction(r.client) THEN r.q ELSE BEGIN \o r.q)
  ELSE IF r.op = "commit"
  THEN CommitText(r.q, SentInTransaction(r.client))
  ELSE ROLLBACK

\* The step is the Backend's answer to the statement of commit or rollback
\* on the client.
IsEndCompleted(client) ==
  /\ clients[client]._cb # NULL
  /\ requests[clients[client]._cb].op \in {"commit", "rollback"}
  /\ clients'[client]._cb = NULL

\* C28: while the status is not running, a call on a transaction that was
\* opened before stop() is not refused: driver.query(q, cb, tx), commit and
\* rollback send their statement on the transaction's client as they do in
\* status running (the empty commit and rollback of C10 send none), no
\* DriverState error is scheduled and the status is left alone; and when the
\* Backend has answered the statement of commit or rollback, the
\* transaction's client is closed.
C28_TransactionOutlivesStop ==
  /\ [][(IsTxCall /\ internal.status # "running" /\ ~IsEmptyEnd) =>
          LET r == requests'[Len(requests')] IN
          /\ sent' = Append(sent,
               [client |-> r.client, qs |-> TxCallText(r), cb |-> Len(requests')])
          /\ immediates' = immediates
          /\ internal'.status = internal.status]_vars
  /\ [][\A c \in ClientIds :
          (IsEndCompleted(c) /\ internal.status # "running") =>
            ended'[c] = ended[c] + 1]_vars

\* A transaction was open when stop() was accepted; its owner then committed
\* it with a query, and the Backend has answered.
C28_Witness ==
  \E s \in AcceptedStops :
    \E i \in DOMAIN sent :
      /\ sent[i].cb > s
      /\ requests[sent[i].cb].op = "commit"
      /\ sent[i].qs = BEGIN \o requests[sent[i].cb].q \o NewlineCommit
      /\ inflight[sent[i].client] = 0
      /\ ended[sent[i].client] = 1

\* -------------------------------------------------------------------- C29

\* Every creation so far has failed, none is under way and the failure
\* budget is used up.
Exhausted ==
  /\ nclients = 0
  /\ internal.clientsCount = 0
  /\ internal.failuresCount >= internal.failuresMaximum

\* The failed creation that uses up the budget starts no creation and leaves
\* the status alone.
C29_ExhaustingFailureStartsNothing ==
  [][(IsConnectErr /\ Exhausted') =>
       /\ connecting' = 0
       /\ internal'.status = internal.status]_vars

\* C29: once a failed creation has left clientsCount = 0 with
\* failuresCount >= failuresMaximum, no step starts a connection attempt,
\* whatever request arrives, and only stop() changes the status.
C29_ExhaustionIsTerminal ==
  /\ C29_ExhaustingFailureStartsNothing
  /\ [][Exhausted =>
          /\ connecting' = connecting
          /\ (~IsStopCall => internal'.status = internal.status)]_vars

\* -------------------------------------------------------------------- C30

\* The step is the Backend's answer to a statement of a client that is to
\* return to the pool after it.
IsFreed(client) ==
  /\ clients[client]._cb # NULL
  /\ clients[client]._returnToPool
  /\ Len(delivered') = Len(delivered) + 1
  /\ delivered'[Len(delivered')].cb = clients[client]._cb

\* C30: a failed creation adds one to failuresCount and takes one from
\* clientsCount (a retry of C16 counts its new attempt in again, so
\* clientsCount less the attempts under way stays what it was), and leaves
\* status, clientsActive, the pool, the queue, the clients and every callback
\* alone; when clientsCount is still > 0 after the decrement the failure
\* starts no attempt; and the requests left in the queue go to the remaining
\* clients: a connection that is made, or a client that is to return to the
\* pool and whose statement has been answered, takes the head of the queue.
C30_FailedCreation ==
  /\ [][IsConnectErr =>
          /\ internal'.failuresCount = internal.failuresCount + 1
          /\ internal'.clientsCount - connecting' = internal.clientsCount - connecting
          /\ internal'.status = internal.status
          /\ internal'.clientsActive = internal.clientsActive
          /\ internal'.clientPool = internal.clientPool
          /\ internal'.queue = internal.queue
          /\ clients' = clients
          /\ nclients' = nclients
          /\ immediates' = immediates
          /\ delivered' = delivered
          /\ sent' = sent
          /\ dispatched' = dispatched]_vars
  /\ [][(IsConnectErr /\ internal.clientsCount > 1) =>
          /\ connecting' = connecting - 1
          /\ internal'.clientsCount = internal.clientsCount - 1]_vars
  /\ [][\A c \in ClientIds :
          (IsFreed(c) /\ internal.queue # <<>>) =>
            /\ Len(dispatched') > Len(dispatched)
            /\ SubSeq(dispatched', 1, Len(dispatched) + 1) =
                 Append(dispatched,
                   [cb |-> Head(internal.queue).cb, client |-> c])
            /\ Len(internal'.queue) < Len(internal.queue)]_vars

\* Of the two connections asked for two queued requests one has failed and
\* was not tried again; the one client that was made has taken both requests.
C30_Witness ==
  /\ internal.clientsMaximum = 2
  /\ internal.failuresCount = 1
  /\ nclients = 1
  /\ connecting = 0
  /\ internal.clientsCount = 1
  /\ internal.queue = <<>>
  /\ Len(dispatched) = 2
  /\ \A i \in DOMAIN dispatched : dispatched[i].client = 1

\* -------------------------------------------------------------------- C31

\* Something is pending that will make the driver schedule again: a
\* connection attempt, a statement at the Backend, a callback that has not
\* run yet, or a transaction whose owner still has a call to make.
SchedulingPending ==
  \/ connecting > 0
  \/ \E c \in ClientIds : inflight[c] > 0
  \/ immediates # <<>>
  \/ \E c \in ClientIds : handle[c] # "none"

\* The failure budget is used up.
BudgetExhausted ==
  /\ internal.clientsCount = 0
  /\ internal.failuresCount >= internal.failuresMaximum

\* C31 by the driver's counters: in status running with a non-empty queue, a
\* creation is in flight, clientsActive > 0 or the budget is used up.
C31_NoStallByCounters ==
  (internal.status = "running" /\ internal.queue # <<>>) =>
    \/ connecting > 0
    \/ internal.clientsActive > 0
    \/ BudgetExhausted

\* C31: in status running, whenever the work queue is non-empty, a creation
\* is in flight, some client is active (and so will come back to the
\* scheduler: it has a statement at the Backend, or a callback is about to
\* run, or the owner of its transaction has a call to make), or the failure
\* budget is used up.
C31_NoStall ==
  (internal.status = "running" /\ internal.queue # <<>>) =>
    (SchedulingPending \/ BudgetExhausted)

\* -------------------------------------------------------------------- C32

\* C32: in every state between two turns the idle pool or the work queue is
\* empty; a turn that leaves one request more in the queue started with an
\* empty pool, and a turn that leaves a client on top of the pool that was
\* not there leaves the queue empty.
C32_PoolOrQueueEmpty ==
  /\ [](internal.queue = <<>> \/ PoolList = <<>>)
  /\ [][Len(internal'.queue) > Len(internal.queue) =>
          internal.clientPool = NULL]_vars
  /\ [][(internal'.clientPool # NULL /\ internal'.clientPool # internal.clientPool) =>
          internal'.queue = <<>>]_vars

\* A request has waited in the queue for a busy client, which took it when
\* its first one was answered and went to the pool after the second.
C32_Witness ==
  /\ Len(dispatched) = 2
  /\ dispatched[1].client = dispatched[2].client
  /\ PoolList = <<dispatched[1].client>>
  /\ internal.queue = <<>>

\* -------------------------------------------------------------------- C33

\* The step is the Backend's answer to a plain query, request r, on the
\* client.
IsPlainQueryAnswered(client) ==
  /\ clients[client]._cb # NULL
  /\ requests[clients[client]._cb].op = "query"
  /\ Len(delivered') = Len(delivered) + 1
  /\ delivered'[Len(delivered')].cb = clients[client]._cb

\* After the step the client has gone idle: it has taken the next item of
\* the work queue, or it is in the pool, or it has been closed.
WentIdle(client) ==
  \/ /\ Len(dispatched') > Len(dispatched)
     /\ dispatched'[Len(dispatched) + 1].client = client
  \/ clients'[client]._pooled
  \/ ended'[client] > ended[client]

\* Every plain query is sent as its compiled SQL.
C33_PlainQuerySentAsCompiled ==
  \A i \in DOMAIN sent :
    requests[sent[i].cb].op = "query" => sent[i].qs = compile(requests[sent[i].cb].q)

\* C33: a query admitted through driver.query(q, cb) without tx is sent to
\* the Backend as exactly its compiled SQL, whichever client serves it, and
\* when the Backend has answered it that client goes idle.
C33_PlainQueryOnCleanClient ==
  /\ []C33_PlainQuerySentAsCompiled
  /\ [][\A c \in ClientIds : IsPlainQueryAnswered(c) => WentIdle(c)]_vars

\* -------------------------------------------------------------------- C34

\* The callbacks of begin requests that the step schedules with a client.
NewTransactions ==
  {k \in DOMAIN immediates' :
     /\ \A j \in DOMAIN immediates : immediates[j] # immediates'[k]
     /\ requests'[immediates'[k].cb].op = "begin"
     /\ immediates'[k].res.t = "client"}

\* A transaction is handed out on a client in OPEN_EMPTY with the next
\* transaction id.
C34_FreshTransaction ==
  [][\A k \in NewTransactions :
       LET c == immediates'[k].res.c IN
       /\ immediates'[k].err = Null
       /\ internal'.txIdGenerator = internal.txIdGenerator + 1
       /\ clients'[c]._txId = internal'.txIdGenerator
       /\ \A d \in ClientIds \ {c} : clients'[d]._txId < clients'[c]._txId
       /\ clients'[c]._txState = ""
       /\ ~clients'[c]._returnToPool]_vars

\* Every callback of an admitted begin request that has run received a
\* client.
C34_BeginAnsweredWithClient ==
  \A i \in DOMAIN delivered :
    (requests[delivered[i].cb].op = "begin" /\ Admitted(delivered[i].cb)) =>
      (delivered[i].err = Null /\ delivered[i].res.t = "client")

\* C34: a begin request admitted in status running is answered with
\* cb(null, client), the client being in OPEN_EMPTY with a _txId greater
\* than every id issued before, and never with a TransactionState error.
C34_BeginGetsFreshTransaction ==
  /\ C34_FreshTransaction
  /\ []C34_BeginAnsweredWithClient

\* -------------------------------------------------------------------- C35

\* The idle pool is empty once the status is stopped.
C35_StoppedPoolEmpty ==
  internal.status = "stopped" => internal.clientPool = NULL

\* C35: once the status is stopped the idle pool is empty, clientsCount = 0,
\* the work queue is empty and no connect or query call is outstanding at
\* the Backend, and no step starts one.
C35_StoppedIsQuiet ==
  /\ [](internal.status = "stopped" =>
          /\ internal.clientPool = NULL
          /\ internal.clientsCount = 0
          /\ internal.queue = <<>>
          /\ connecting = 0
          /\ \A c \in ClientIds : inflight[c] = 0)
  /\ [][internal.status = "stopped" =>
          /\ sent' = sent
          /\ connecting' <= connecting]_vars

====
